---- MODULE Spec2Model ----
(***************************************************************************)
(* EpiView: the data-join engine (EpiViewTable_COVID19_UnitedStates) and   *)
(* the formula evaluator (EpiViewEntry).                                   *)
(*                                                                         *)
(* JavaScript values are modelled as tagged records:                       *)
(*   a number is [t |-> "number", n, d]: the rational n/d in lowest terms  *)
(*   when d > 0, and d = 0 for the non-finite values (n = 1 Infinity,      *)
(*   n = -1 -Infinity, n = 0 NaN);                                         *)
(*   a string of decimal digits is [t |-> "string", v], v its value.       *)
(* A Date at local midnight is [valid, day], day its day number within the *)
(* year 2020, and an ISO date string "2020-MM-DD" is the pair <<MM, DD>>.  *)
(* A region key (a FIPS string such as "36061") is the integer it spells.  *)
(***************************************************************************)
EXTENDS Integers, Sequences, FiniteSets, TLC

VARIABLES
  data,       \* EpiViewTable.data: a function from the keys present to entries
  minDate,    \* EpiViewTable.minDate
  maxDate,    \* EpiViewTable.maxDate
  err,        \* what the last operation threw, "none" when it returned
  ops,        \* the merge passes applied so far, in order
  feeds,      \* the input each applied pass was given
  call,       \* the last evaluator call: its entry key and formula
  result,     \* what that call returned or threw
  app         \* the App component: its fields, its state and what it awaits

vars == <<data, minDate, maxDate, err, ops, feeds, call, result, app>>

----------------------------------------------------------------------------
(* Bounds of the model *)

\* BOROUGHS is cut to its first NBoroughs codes.
NBoroughs == 2
\* A feed holds at most MaxRows rows or features.
MaxRows == 2
\* Land areas in a feed are whole multiples of 1/AreaGrain square mile.
AreaGrain == 4
\* The formula's date and refDate range over NumDays consecutive days.
NumDays == 4

----------------------------------------------------------------------------
(* JavaScript numbers *)

Abs(i) == IF i < 0 THEN -i ELSE i
Sign(i) == IF i < 0 THEN -1 ELSE IF i > 0 THEN 1 ELSE 0

RECURSIVE GCD(_, _)
GCD(i, j) == IF j = 0 THEN i ELSE GCD(j, i % j)

LCM(i, j) == (i \div GCD(i, j)) * j

\* The number n/d (d >= 0); d = 0 gives Infinity, -Infinity or NaN.
JSNumber(n, d) ==
  IF d = 0 THEN [t |-> "number", n |-> Sign(n), d |-> 0]
  ELSE LET g == GCD(Abs(n), d)
       IN [t |-> "number", n |-> n \div g, d |-> d \div g]

Int2Num(i) == JSNumber(i, 1)
NaN == JSNumber(0, 0)
Zero == Int2Num(0)
IsNaN(x) == x.t = "number" /\ x.d = 0 /\ x.n = 0
IsFinite(x) == x.t = "number" /\ x.d > 0

Str(v) == [t |-> "string", v |-> v]

\* Unary plus, and the coercion an arithmetic operator applies to an operand.
ToNumber(x) ==
  CASE x.t = "string" -> Int2Num(x.v)
    [] x.t = "undefined" -> NaN
    [] OTHER -> x

\* undefined, as a value, and row[field]: undefined when the row has no such
\* field.
UndefinedValue == [t |-> "undefined"]
Prop(row, field) == IF field \in DOMAIN row THEN row[field] ELSE UndefinedValue

Neg(x) == [x EXCEPT !.n = -x.n]

\* a + b on numbers.
Add(a, b) ==
  IF IsNaN(a) \/ IsNaN(b) THEN NaN
  ELSE IF a.d = 0 /\ b.d = 0 THEN (IF a.n = b.n THEN a ELSE NaN)
  ELSE IF a.d = 0 THEN a
  ELSE IF b.d = 0 THEN b
  ELSE LET l == LCM(a.d, b.d)
       IN JSNumber(a.n * (l \div a.d) + b.n * (l \div b.d), l)

\* a - b on numbers.
Sub(a, b) == Add(a, Neg(b))

\* a / b on numbers (no operand here is ever -0).
Div(a, b) ==
  IF IsNaN(a) \/ IsNaN(b) THEN NaN
  ELSE IF a.d = 0 THEN (IF b.d = 0 THEN NaN
                        ELSE JSNumber(a.n * (IF b.n < 0 THEN -1 ELSE 1), 0))
  ELSE IF b.d = 0 THEN Zero
  ELSE IF b.n = 0 THEN JSNumber(a.n, 0)
  ELSE JSNumber(a.n * b.d * Sign(b.n), a.d * Abs(b.n))

\* x !== 0 (strict: a string is never equal to the number 0).
StrictNeZero(x) == ~(x.t = "number" /\ x = Zero)

----------------------------------------------------------------------------
(* Dates *)

\* undefined (never equal to a date string).
Undefined == <<"undefined">>

\* Days before the first of month m in 2020.
DaysBefore(m) ==
  CASE m = 1 -> 0 [] m = 2 -> 31 [] m = 3 -> 60 [] m = 4 -> 91

\* A Date: a day of 2020 at local midnight, or an Invalid Date.
DateOf(day) == [valid |-> TRUE, day |-> day]
InvalidDate == [valid |-> FALSE, day |-> 0]

\* The empty string, as a date string.
EmptyStr == <<>>

\* parseDate: "2020-MM-DD" to the Date of that day at local midnight; a
\* string without the three parts gives an Invalid Date.
parseDate(dateStr) ==
  IF dateStr = EmptyStr THEN InvalidDate
  ELSE DateOf(DaysBefore(dateStr[1]) + dateStr[2])

\* a <= b and a >= b on Dates (false when either is invalid).
DateLE(a, b) == a.valid /\ b.valid /\ a.day <= b.day
DateGE(a, b) == DateLE(b, a)

\* new Date(date), then setDate(getDate() - 1).
PrevDay(date) == IF date.valid THEN DateOf(date.day - 1) ELSE date

\* k1 < k2 on ISO date strings (character by character).
StrLess(k1, k2) == k1[1] < k2[1] \/ (k1[1] = k2[1] /\ k1[2] < k2[2])

----------------------------------------------------------------------------
(* EpiViewEntry *)

EpiViewEntry(name, region) ==
  [name |-> name, region |-> region, population |-> Zero, area |-> Zero,
   bounds |-> <<>>, counts |-> <<>>]

\* Object.keys(counts): the date keys in insertion order.
ObjectKeys(counts) == [i \in 1..Len(counts) |-> counts[i].date]

\* The one element of a singleton.
Only(S) == CHOOSE x \in S : TRUE

Reverse(s) == [i \in 1..Len(s) |-> s[Len(s) + 1 - i]]

\* Array.prototype.find over keys, hits being the indices of the keys that
\* satisfy the predicate: the first such key, or undefined.
FirstHit(keys, hits) ==
  IF hits = {} THEN Undefined
  ELSE keys[CHOOSE i \in hits : \A j \in hits : i <= j]

\* counts[dateStr]
Get(counts, dateStr) ==
  LET i == CHOOSE j \in 1..Len(counts) : counts[j].date = dateStr
  IN counts[i]

complete(entry) ==
  /\ StrictNeZero(entry.population)
  /\ StrictNeZero(entry.area)
  /\ Len(entry.bounds) # 0
  /\ Len(ObjectKeys(entry.counts)) # 0

Throw(what) == [t |-> "throw", v |-> what]

\* numerator.replace(/ \(.*\)/, "")
StripParen(numerator) ==
  CASE numerator = "cases (U.S.)" -> "cases"
    [] numerator = "daily new cases (U.S.)" -> "daily new cases"
    [] numerator = "deaths (U.S.)" -> "deaths"
    [] numerator = "daily new deaths (U.S.)" -> "daily new deaths"
    [] numerator = "cases (L.A.)" -> "cases"
    [] numerator = "daily new cases (L.A.)" -> "daily new cases"
    [] OTHER -> numerator

\* A variant of LookupKey that takes the last inserted key whatever the
\* requested date.
LookupKeyAnyDate(counts, date) ==
  LET keys == Reverse(ObjectKeys(counts))
  IN FirstHit(keys, DOMAIN keys)

\* Object.keys(counts).reverse().find(k => parseDate(k) <= date): the first
\* key, from the last inserted backwards, on or before the requested date.
LookupKey(counts, date) ==
  LET keys == Reverse(ObjectKeys(counts))
  IN FirstHit(keys, {i \in DOMAIN keys : DateLE(parseDate(keys[i]), date)})

Numerators == {"cases", "daily new cases", "deaths", "daily new deaths"}
Denominators == {"total", "per case", "per 100k population", "per sq. mi."}

\* A variant of NumeratorValue whose daily numerators subtract nothing.
NumeratorValueCumulative(entry, kind, dateStr, prevDateStr) ==
  LET rec == Get(entry.counts, dateStr)
  IN IF kind \in {"cases", "daily new cases"} THEN rec.cases ELSE rec.deaths

\* The switch on the numerator: nval, read at key dateStr, less the value at
\* key prevDateStr if there is one.
NumeratorValue(entry, kind, dateStr, prevDateStr) ==
  LET rec == Get(entry.counts, dateStr)
  IN CASE kind = "cases" -> rec.cases
       [] kind = "daily new cases" ->
            IF prevDateStr # Undefined
            THEN Sub(rec.cases, Get(entry.counts, prevDateStr).cases)
            ELSE rec.cases
       [] kind = "deaths" -> rec.deaths
       [] kind = "daily new deaths" ->
            IF prevDateStr # Undefined
            THEN Sub(rec.deaths, Get(entry.counts, prevDateStr).deaths)
            ELSE rec.deaths

\* The switch on the denominator: dval, read at key dateStr.
DenominatorValue(entry, denominator, dateStr) ==
  CASE denominator = "total" -> Int2Num(1)
    [] denominator = "per case" -> Get(entry.counts, dateStr).cases
    [] denominator = "per 100k population" ->
         Div(ToNumber(entry.population), Int2Num(100000))
    [] denominator = "per sq. mi." -> entry.area

\* A variant of BasicFrom that throws instead of dividing by 0.
BasicFromGuarded(entry, numerator, denominator, dateStr, prevDateStr) ==
  LET kind == StripParen(numerator)
  IN IF dateStr = Undefined THEN Zero
     ELSE IF kind \notin Numerators THEN Throw("invalid numerator")
     ELSE IF denominator \notin Denominators
          THEN Throw("invalid denominator")
     ELSE IF DenominatorValue(entry, denominator, dateStr) = Zero
          THEN Throw("division by zero")
     ELSE Div(NumeratorValue(entry, kind, dateStr, prevDateStr),
              DenominatorValue(entry, denominator, dateStr))

\* evaluateBasic once the two keys are found.
BasicFrom(entry, numerator, denominator, dateStr, prevDateStr) ==
  LET kind == StripParen(numerator)
  IN IF dateStr = Undefined THEN Zero
     ELSE IF kind \notin Numerators THEN Throw("invalid numerator")
     ELSE IF denominator \notin Denominators
          THEN Throw("invalid denominator")
     ELSE Div(NumeratorValue(entry, kind, dateStr, prevDateStr),
              DenominatorValue(entry, denominator, dateStr))

evaluateBasic(entry, numerator, denominator, date) ==
  BasicFrom(entry, numerator, denominator, LookupKey(entry.counts, date),
            LookupKey(entry.counts, PrevDay(date)))

\* A variant of AveragedValues whose loop runs while d > refDate.
RECURSIVE AveragedValuesStrict(_, _, _, _, _)
AveragedValuesStrict(entry, numerator, denominator, d, refDate) ==
  IF ~(DateGE(d, refDate) /\ d # refDate) THEN <<>>
  ELSE LET v == evaluateBasic(entry, numerator, denominator, d)
       IN IF v.t = "throw" THEN <<v>>
          ELSE <<v>> \o AveragedValuesStrict(entry, numerator, denominator,
                                             PrevDay(d), refDate)

\* The values the "averaged" loop pushes: one per day from date down to
\* refDate; the first throw of evaluateBasic ends the loop.
RECURSIVE AveragedValues(_, _, _, _, _)
AveragedValues(entry, numerator, denominator, d, refDate) ==
  IF ~DateGE(d, refDate) THEN <<>>
  ELSE LET v == evaluateBasic(entry, numerator, denominator, d)
       IN IF v.t = "throw" THEN <<v>>
          ELSE <<v>> \o AveragedValues(entry, numerator, denominator,
                                       PrevDay(d), refDate)

\* values.reduce((sum, v) => sum + v, 0)
RECURSIVE SumFrom(_, _)
SumFrom(values, sum) ==
  IF values = <<>> THEN sum ELSE SumFrom(Tail(values), Add(sum, Head(values)))

\* A variant of ModeOn that evaluates at the reference date.
ModeOnAtRefDate(entry, udf) ==
  evaluateBasic(entry, udf.numerator, udf.denominator, udf.refDate)

\* case "on"
ModeOn(entry, udf) ==
  evaluateBasic(entry, udf.numerator, udf.denominator, udf.date)

\* A variant of ModeDifferenced that adds the two values.
ModeDifferencedAdding(entry, udf) ==
  LET v1 == evaluateBasic(entry, udf.numerator, udf.denominator, udf.date)
      v2 == evaluateBasic(entry, udf.numerator, udf.denominator, udf.refDate)
  IN IF v1.t = "throw" THEN v1
     ELSE IF v2.t = "throw" THEN v2
     ELSE Add(v1, v2)

\* case "differenced between"
ModeDifferenced(entry, udf) ==
  LET v1 == evaluateBasic(entry, udf.numerator, udf.denominator, udf.date)
      v2 == evaluateBasic(entry, udf.numerator, udf.denominator, udf.refDate)
  IN IF v1.t = "throw" THEN v1
     ELSE IF v2.t = "throw" THEN v2
     ELSE Sub(v1, v2)

\* A variant of ModeAveraged that returns the sum of the values.
ModeAveragedSum(entry, udf) ==
  LET values == AveragedValues(entry, udf.numerator, udf.denominator,
                               udf.date, udf.refDate)
  IN IF values # <<>> /\ values[Len(values)].t = "throw"
     THEN values[Len(values)]
     ELSE SumFrom(values, Zero)

\* case "averaged"
ModeAveraged(entry, udf) ==
  LET values == AveragedValues(entry, udf.numerator, udf.denominator,
                               udf.date, udf.refDate)
  IN IF values # <<>> /\ values[Len(values)].t = "throw"
     THEN values[Len(values)]
     ELSE Div(SumFrom(values, Zero), Int2Num(Len(values)))

evaluate(entry, udf) ==
  IF ~complete(entry) THEN Zero
  ELSE CASE udf.mode = "on" -> ModeOn(entry, udf)
         [] udf.mode = "differenced between" -> ModeDifferenced(entry, udf)
         [] udf.mode = "averaged" -> ModeAveraged(entry, udf)
         [] OTHER -> Throw("invalid mode")

----------------------------------------------------------------------------
(* The Date objects a call of the evaluator is given *)

\* The Date objects of a call, by the name that refers to each: the
\* formula's date and refDate, the loop variable d of "averaged" and the
\* prevDate of a daily numerator.
DateObjects(date, refDate) ==
  [date |-> date, refDate |-> refDate, d |-> date, prevDate |-> date]

\* let prevDate = new Date(date): an object of its own.
PrevDateObject(given) == "prevDate"

\* A variant of LoopDateObject: d is the object it was given.
LoopDateAliased(given) == given

\* let d = new Date(udf.date): an object of its own.
LoopDateObject(given) == "d"

\* The objects after evaluateBasic(numerator, denominator, date), date being
\* the object named given: a daily numerator sets its prevDate to the day
\* before.
BasicDates(entry, numerator, objects, given) ==
  IF LookupKey(entry.counts, objects[given]) = Undefined THEN objects
  ELSE IF StripParen(numerator) \in {"daily new cases", "daily new deaths"}
       THEN LET prevDate == PrevDateObject(given)
                copied == [objects EXCEPT ![prevDate] = objects[given]]
            IN [copied EXCEPT ![prevDate] = PrevDay(@)]
       ELSE objects

\* The objects after the loop of "averaged": d.setDate(d.getDate() - 1) after
\* each call of evaluateBasic, until d is before refDate or the call throws.
RECURSIVE AveragedDates(_, _, _, _)
AveragedDates(entry, udf, objects, d) ==
  IF ~DateGE(objects[d], objects.refDate) THEN objects
  ELSE LET v == evaluateBasic(entry, udf.numerator, udf.denominator,
                              objects[d])
       IN Only({IF v.t = "throw" THEN called
                ELSE AveragedDates(entry, udf,
                                   [called EXCEPT ![d] = PrevDay(@)], d) :
                  called \in {BasicDates(entry, udf.numerator, objects, d)}})

\* The objects after evaluate(udf).
EvaluateDates(entry, udf, objects) ==
  IF ~complete(entry) THEN objects
  ELSE CASE udf.mode = "on" ->
              BasicDates(entry, udf.numerator, objects, "date")
         [] udf.mode = "differenced between" ->
              LET v1 == evaluateBasic(entry, udf.numerator, udf.denominator,
                                      objects.date)
                  called == BasicDates(entry, udf.numerator, objects, "date")
              IN IF v1.t = "throw" THEN called
                 ELSE BasicDates(entry, udf.numerator, called, "refDate")
         [] udf.mode = "averaged" ->
              LET d == LoopDateObject("date")
              IN AveragedDates(entry, udf,
                               [objects EXCEPT ![d] = objects.date], d)
         [] OTHER -> objects

\* The formula as the objects hold it.
Held(udf, objects) ==
  [udf EXCEPT !.date = objects.date, !.refDate = objects.refDate]

----------------------------------------------------------------------------
(* EpiViewTable.computePolygons *)

\* Object.keys of the table: its keys are canonical array indices, which an
\* object enumerates in ascending order.
RECURSIVE TableKeys(_)
TableKeys(keys) ==
  IF keys = {} THEN <<>>
  ELSE LET first == CHOOSE k \in keys : \A other \in keys : k <= other
       IN <<first>> \o TableKeys(keys \ {first})

\* a < b on numbers (false when either is NaN).
Less(a, b) == ~IsNaN(a) /\ ~IsNaN(b) /\ a.n * b.d < b.n * a.d

\* Math.max(max, ...values): NaN when a value is NaN.
RECURSIVE MathMax(_, _)
MathMax(max, values) ==
  IF values = <<>> THEN max
  ELSE IF IsNaN(max) \/ IsNaN(Head(values)) THEN NaN
  ELSE MathMax(IF Less(max, Head(values)) THEN Head(values) ELSE max,
               Tail(values))

\* The Polygons of one entry: one per bound, keyed `${key}-${i}`, red for a
\* positive value and blue otherwise, the opacity growing with the share
\* the value has of fmax.  The key is held as the pair <<key, i>> the
\* template is filled with: i is written in digits after the last "-", so
\* two keys are the same text exactly when they are the same pair.
EntryPolygons(key, entry, value, fmax) ==
  [i \in 1..Len(entry.bounds) |->
     [key |-> <<key, i - 1>>, coordinates |-> entry.bounds[i],
      fillColor |-> IF Less(Zero, value)
                    THEN [hue |-> "red", share |-> Div(value, fmax)]
                    ELSE [hue |-> "blue", share |-> Div(Neg(value), fmax)]]]

\* The loop of computePolygons over the entries: the udf is evaluated as the
\* Date objects hold it when the entry is reached; an incomplete entry is
\* passed over, a throw of evaluate ends the loop.
RECURSIVE PolygonsLoop(_, _, _, _, _, _)
PolygonsLoop(d, keys, udf, fmax, objects, polygons) ==
  IF keys = <<>> THEN [t |-> "polygons", v |-> polygons, objects |-> objects]
  ELSE LET entry == d[Head(keys)]
       IN IF ~complete(entry)
          THEN PolygonsLoop(d, Tail(keys), udf, fmax, objects, polygons)
          ELSE Only({IF value.t = "throw"
                     THEN [t |-> "throw", v |-> value.v, objects |-> after]
                     ELSE PolygonsLoop(d, Tail(keys), udf, fmax, after,
                                       polygons \o
                                         EntryPolygons(Head(keys), entry,
                                                       value, fmax)) :
                       value \in {evaluate(entry, Held(udf, objects))},
                       after \in {EvaluateDates(entry, Held(udf, objects),
                                                objects)}})

\* Object.values(this.data).map(entry => entry.evaluate(udf)): the values and
\* the Date objects after them; a throw of evaluate ends the map.
RECURSIVE ValuesMap(_, _, _, _, _)
ValuesMap(d, keys, udf, objects, values) ==
  IF keys = <<>> THEN [t |-> "values", v |-> values, objects |-> objects]
  ELSE LET entry == d[Head(keys)]
       IN Only({IF value.t = "throw"
                THEN [t |-> "throw", v |-> value.v, objects |-> after]
                ELSE ValuesMap(d, Tail(keys), udf, after,
                               Append(values, value)) :
                  value \in {evaluate(entry, Held(udf, objects))},
                  after \in {EvaluateDates(entry, Held(udf, objects),
                                           objects)}})

\* computePolygons(udf) on a table whose keys Object.values and
\* Object.entries enumerate in the order of keys: the Polygons, or the throw,
\* and the Date objects after it.
Polygons(d, keys, udf) ==
  Only({IF mapped.t = "throw" THEN mapped
        ELSE Only({PolygonsLoop(d, keys, udf,
                                IF max = Zero THEN Int2Num(1) ELSE max,
                                mapped.objects, <<>>) :
                     max \in {MathMax(Zero, mapped.v)}}) :
          mapped \in {ValuesMap(d, keys, udf,
                                DateObjects(udf.date, udf.refDate), <<>>)}})

\* computePolygons(udf) on the table of the United States.
computePolygons(d, udf) == Polygons(d, TableKeys(DOMAIN d), udf)

----------------------------------------------------------------------------
(* EpiViewTable_COVID19_UnitedStates *)

\* FIPS codes for the boroughs of NYC.
AllBoroughs == <<36061, 36047, 36081, 36005, 36085>>
BOROUGHS == SubSeq(AllBoroughs, 1, NBoroughs)

\* The key of New York City.
nyc == 36000

\* data[key] = entry
Put(d, key, entry) == (key :> entry) @@ d

\* The entry of key, created by new EpiViewEntry(name, region) if absent.
Ensure(d, key, name, region) ==
  IF key \in DOMAIN d THEN d ELSE Put(d, key, EpiViewEntry(name, region))

\* row.STATE.padStart(2, "0") + row.COUNTY.padStart(3, "0")
Fips(row) == row.STATE * 1000 + row.COUNTY

\* The loop of addPopulation over the rows.
RECURSIVE PopulationRows(_, _)
PopulationRows(d, rows) ==
  IF rows = <<>> THEN d
  ELSE LET row == Head(rows)
           fips == Fips(row)
           d1 == Ensure(d, fips, row.CTYNAME, row.STNAME)
           d2 == [d1 EXCEPT ![fips].population = row.POPESTIMATE2018]
       IN PopulationRows(d2, Tail(rows))

\* BOROUGHS.reduce((total, fips) => total + +this.data[fips].population):
\* without an initial value the first element is the first total.
RECURSIVE ReducePopulation(_, _, _)
ReducePopulation(d, total, rest) ==
  IF rest = <<>> THEN total
  ELSE IF Head(rest) \notin DOMAIN d THEN Throw("TypeError")
  ELSE ReducePopulation(d, Add(total, ToNumber(d[Head(rest)].population)),
                        Tail(rest))

addPopulation(d, rawPopulation) ==
  LET d1 == PopulationRows(d, rawPopulation)
      d2 == Ensure(d1, nyc, "New York City", "New York")
      total == ReducePopulation(d2, Int2Num(Head(BOROUGHS)), Tail(BOROUGHS))
  IN IF total.t = "throw" THEN [data |-> d2, err |-> total.v]
     ELSE [data |-> [d2 EXCEPT ![nyc].population = total], err |-> "none"]

\* parseCoord: a GeoJSON coordinate [longitude, latitude] to a LatLng.
parseCoord(coord) == [latitude |-> coord[2], longitude |-> coord[1]]

\* bound[0].map(parseCoord): the outer ring of a polygon.
OuterRing(bound) == [i \in 1..Len(bound[1]) |-> parseCoord(bound[1][i])]

\* What the switch on feature.geometry.type pushes to bounds.
Pushed(geometry) ==
  CASE geometry.type = "Polygon" -> <<OuterRing(geometry.coordinates)>>
    [] geometry.type = "MultiPolygon" ->
         [i \in 1..Len(geometry.coordinates) |->
            OuterRing(geometry.coordinates[i])]
    [] OTHER -> <<>>

\* feature.properties.ALAND / 2589988.110336, ALAND being a whole number of
\* 1/AreaGrain square miles.
SqMiles(aland) == JSNumber(aland, AreaGrain)

\* The loop of addBounds over the features.
RECURSIVE BoundsFeatures(_, _)
BoundsFeatures(d, features) ==
  IF features = <<>> THEN d
  ELSE LET feature == Head(features)
           fips == feature.properties.GEOID
           d1 == Ensure(d, fips, feature.properties.NAME,
                        feature.properties.STATEFP)
           d2 == [d1 EXCEPT
                    ![fips].area = Add(@, SqMiles(feature.properties.ALAND)),
                    ![fips].bounds = @ \o Pushed(feature.geometry)]
       IN BoundsFeatures(d2, Tail(features))

\* BOROUGHS.reduce((total, fips) => total + this.data[fips].area)
RECURSIVE ReduceArea(_, _, _)
ReduceArea(d, total, rest) ==
  IF rest = <<>> THEN total
  ELSE IF Head(rest) \notin DOMAIN d THEN Throw("TypeError")
  ELSE ReduceArea(d, Add(total, d[Head(rest)].area), Tail(rest))

\* A variant of ReduceBounds that puts each constituent's polygons in front
\* of the running total.
RECURSIVE ReduceBoundsPrepend(_, _, _)
ReduceBoundsPrepend(d, total, rest) ==
  IF rest = <<>> THEN [t |-> "array", v |-> total]
  ELSE IF Head(rest) \notin DOMAIN d THEN Throw("TypeError")
  ELSE ReduceBoundsPrepend(d, d[Head(rest)].bounds \o total, Tail(rest))

\* BOROUGHS.reduce((total, fips) => total.concat(this.data[fips].bounds), [])
RECURSIVE ReduceBounds(_, _, _)
ReduceBounds(d, total, rest) ==
  IF rest = <<>> THEN [t |-> "array", v |-> total]
  ELSE IF Head(rest) \notin DOMAIN d THEN Throw("TypeError")
  ELSE ReduceBounds(d, total \o d[Head(rest)].bounds, Tail(rest))

addBounds(d, rawBounds) ==
  LET d1 == BoundsFeatures(d, rawBounds.features)
      area == ReduceArea(d1, Int2Num(Head(BOROUGHS)), Tail(BOROUGHS))
      d2 == [d1 EXCEPT ![nyc].area = area]
      bounds == ReduceBounds(d2, <<>>, BOROUGHS)
  IN \* "this.data[fips] = ..." outside the loop: fips is not defined
     IF nyc \notin DOMAIN d1 THEN [data |-> d1, err |-> "ReferenceError"]
     ELSE IF area.t = "throw" THEN [data |-> d1, err |-> area.v]
     ELSE IF bounds.t = "throw" THEN [data |-> d2, err |-> bounds.v]
     ELSE [data |-> [d2 EXCEPT ![nyc].bounds = bounds.v], err |-> "none"]

\* counts[date] = value: a new key is appended, a present key keeps its place.
SetCount(counts, date, value) ==
  LET rec == [date |-> date, cases |-> value.cases, deaths |-> value.deaths]
  IN IF \E i \in 1..Len(counts) : counts[i].date = date
     THEN [i \in 1..Len(counts) |->
             IF counts[i].date = date THEN rec ELSE counts[i]]
     ELSE Append(counts, rec)

\* A variant of CountsKey without the New York City substitution.
CountsKeyByFips(row) == row.fips

\* row.county === "New York City" ? "36000" : row.fips
CountsKey(row) == IF row.county = "New York City" THEN nyc ELSE row.fips

\* The loop of addCounts over the rows: the table and the running
\* minDate/maxDate strings.
RECURSIVE CountsRows(_, _)
CountsRows(acc, rows) ==
  IF rows = <<>> THEN acc
  ELSE LET row == Head(rows)
           fips == CountsKey(row)
           d1 == Ensure(acc.data, fips, row.county \o " County", row.state)
           d2 == [d1 EXCEPT ![fips].counts =
                    SetCount(@, row.date,
                             [cases |-> ToNumber(Prop(row, "cases")),
                              deaths |-> ToNumber(Prop(row, "deaths"))])]
           min == IF acc.minDate = EmptyStr \/ StrLess(row.date, acc.minDate)
                  THEN row.date ELSE acc.minDate
           max == IF acc.maxDate = EmptyStr \/ StrLess(acc.maxDate, row.date)
                  THEN row.date ELSE acc.maxDate
       IN CountsRows([data |-> d2, minDate |-> min, maxDate |-> max],
                     Tail(rows))

addCounts(d, rawCounts) ==
  LET acc == CountsRows([data |-> d, minDate |-> EmptyStr,
                         maxDate |-> EmptyStr], rawCounts)
  IN [data |-> acc.data, minDate |-> parseDate(acc.minDate),
      maxDate |-> parseDate(acc.maxDate), err |-> "none"]

\* compile() from addCounts on, b being what addBounds left.
CompileCounts(b, rawCounts) ==
  IF b.err # "none" THEN [data |-> b.data, err |-> b.err, passes |-> 2]
  ELSE Only({[data |-> c.data, err |-> c.err, passes |-> 3,
              minDate |-> c.minDate, maxDate |-> c.maxDate] :
               c \in {addCounts(b.data, rawCounts)}})

\* compile() from addBounds on, p being what addPopulation left.
CompileBounds(p, rawBounds, rawCounts) ==
  IF p.err # "none" THEN [data |-> p.data, err |-> p.err, passes |-> 1]
  ELSE Only({CompileCounts(b, rawCounts) :
               b \in {addBounds(p.data, rawBounds)}})

\* compile(): the three passes in their fixed order on a new table, each on
\* the table the one before left; a pass that throws ends it. passes: how
\* many of them were entered.
compile(rawPopulation, rawBounds, rawCounts) ==
  Only({CompileBounds(p, rawBounds, rawCounts) :
          p \in {addPopulation(<<>>, rawPopulation)}})

----------------------------------------------------------------------------
(* Inputs *)

SeqsUpTo(S, n) == UNION {[1..m -> S] : m \in 0..n}

BoroughSet == {BOROUGHS[i] : i \in 1..NBoroughs}

CountyName(fips) ==
  CASE fips = 36061 -> "New York" [] fips = 36047 -> "Kings"
    [] fips = 36081 -> "Queens" [] fips = 36005 -> "Bronx"
    [] fips = 36085 -> "Richmond"

\* A row of co-est2019-alldata.json.
PopRow(fips, population) ==
  [STATE |-> fips \div 1000, COUNTY |-> fips % 1000,
   CTYNAME |-> CountyName(fips) \o " County", STNAME |-> "New York",
   POPESTIMATE2018 |-> Str(population)]

\* A linear ring of GeoJSON coordinates [longitude, latitude].
Ring(fips, i) ==
  LET x == fips % 100
  IN <<<<x, i>>, <<x + 1, i>>, <<x, i + 1>>, <<x, i>>>>

\* One polygon with a hole; two polygons, the second with a hole.
PolygonOf(fips) ==
  [type |-> "Polygon", coordinates |-> <<Ring(fips, 10), Ring(fips, 11)>>]
MultiPolygonOf(fips) ==
  [type |-> "MultiPolygon",
   coordinates |-> <<<<Ring(fips, 20)>>, <<Ring(fips, 30), Ring(fips, 31)>>>>]

\* A feature of cb_2018_us_county_20m.json.
Feature(fips, aland, geometry) ==
  [properties |-> [GEOID |-> fips, NAME |-> CountyName(fips),
                   STATEFP |-> "36", ALAND |-> aland],
   geometry |-> geometry]

\* The empty string, as a FIPS code.
EmptyFips == 0

\* A row of us-counties.csv; the feed reports New York City as one row
\* without a FIPS code.
CountRow(fips, date, pair) ==
  [date |-> date,
   county |-> IF fips = nyc THEN "New York City" ELSE CountyName(fips),
   state |-> "New York",
   fips |-> IF fips = nyc THEN EmptyFips ELSE fips,
   cases |-> Str(pair[1]), deaths |-> Str(pair[2])]

\* The first day of the window: 2020-02-28.
FirstDay == DaysBefore(2) + 28
Days == FirstDay..(FirstDay + NumDays - 1)

\* The ISO date string of a day of February or March 2020.
IsoOf(day) ==
  IF day <= DaysBefore(3) THEN <<2, day - DaysBefore(2)>>
  ELSE <<3, day - DaysBefore(3)>>

\* The feeds record 2020-02-28 and 2020-03-01: not every day has a record,
\* and the two date strings differ in the month.
FeedDates == {IsoOf(FirstDay), IsoOf(FirstDay + 2)}
CountPairs == {<<0, 1>>, <<2, 3>>}

\* Rows and features of the merge feeds. A borough's population is ten times
\* its place in BOROUGHS; the second borough has a feature of either geometry;
\* the counts are those of New York City and, with the second pair only, of
\* the last borough.
PopRows == {PopRow(BOROUGHS[i], 10 * i) : i \in 1..NBoroughs}
Features ==
  {Feature(k, 1, PolygonOf(k)) : k \in BoroughSet}
    \cup {Feature(BOROUGHS[2], 2, MultiPolygonOf(BOROUGHS[2]))}
CountRows ==
  {CountRow(nyc, date, pair) : date \in FeedDates, pair \in CountPairs}
    \cup {CountRow(BOROUGHS[NBoroughs], date, <<2, 3>>) : date \in FeedDates}

PopulationFeeds == SeqsUpTo(PopRows, MaxRows)
BoundsFeeds == {[features |-> f] : f \in SeqsUpTo(Features, MaxRows)}
CountsFeeds == SeqsUpTo(CountRows, MaxRows)

----------------------------------------------------------------------------
(* The table under its three merge passes, applied in any order *)

NoCall == [fn |-> "none"]
NoResult == [t |-> "none"]

\* new Date(): the day the table is constructed, after the recorded days.
Today == DateOf(DaysBefore(4) + 30)

\* new EpiViewTable()
NewTable == [data |-> <<>>, minDate |-> Today, maxDate |-> Today]

\* The App as its constructor leaves it: its three table fields refer to the
\* two tables it constructs, nothing is awaited, no fetch is issued and no
\* timer is queued.
NewApp ==
  [pc |-> "constructed",
   promise |-> [us |-> "none", la |-> "none"],
   issued |-> [us |-> 0, la |-> 0],
   compiled |-> [us |-> NewTable, la |-> NewTable],
   table_us |-> "new us", table_la |-> "new la", table |-> "new us",
   state |-> [polygons |-> <<>>, recompute |-> FALSE,
              pickingRefDate |-> FALSE, pickingDate |-> FALSE,
              numerator |-> "daily new cases (U.S.)",
              denominator |-> "per 1000 population", mode |-> "on",
              refDate |-> Today, date |-> Today],
   timers |-> 0, events |-> 0]

Init ==
  /\ app = NewApp
  /\ data = <<>>
  /\ minDate = Today
  /\ maxDate = Today
  /\ err = "none"
  /\ ops = <<>>
  /\ feeds = <<>>
  /\ call = NoCall
  /\ result = NoResult

Applied(pass) == \E i \in 1..Len(ops) : ops[i] = pass

AddPopulation ==
  /\ err = "none"
  /\ ~Applied("addPopulation")
  /\ \E rawPopulation \in PopulationFeeds :
       LET r == addPopulation(data, rawPopulation)
       IN /\ data' = r.data
          /\ err' = r.err
          /\ feeds' = Append(feeds, rawPopulation)
  /\ ops' = Append(ops, "addPopulation")
  /\ UNCHANGED <<minDate, maxDate, call, result, app>>

AddBounds ==
  /\ err = "none"
  /\ ~Applied("addBounds")
  /\ \E rawBounds \in BoundsFeeds :
       LET r == addBounds(data, rawBounds)
       IN /\ data' = r.data
          /\ err' = r.err
          /\ feeds' = Append(feeds, rawBounds)
  /\ ops' = Append(ops, "addBounds")
  /\ UNCHANGED <<minDate, maxDate, call, result, app>>

AddCounts ==
  /\ err = "none"
  /\ ~Applied("addCounts")
  /\ \E rawCounts \in CountsFeeds :
       LET r == addCounts(data, rawCounts)
       IN /\ data' = r.data
          /\ minDate' = r.minDate
          /\ maxDate' = r.maxDate
          /\ err' = r.err
          /\ feeds' = Append(feeds, rawCounts)
  /\ ops' = Append(ops, "addCounts")
  /\ UNCHANGED <<call, result, app>>

Next == AddPopulation \/ AddBounds \/ AddCounts

Spec == Init /\ [][Next]_vars

----------------------------------------------------------------------------
(* Properties of the merge passes *)

\* The feed a pass was given.
FeedOf(pass) == feeds[CHOOSE i \in 1..Len(ops) : ops[i] = pass]

\* The pass was applied and returned without throwing.
Returned(pass) ==
  Applied(pass) /\ (err = "none" \/ ops[Len(ops)] # pass)

\* All three passes were applied and returned.
Ingested == Len(ops) = 3 /\ err = "none"

\* Every feed of rows or features given so far holds a record of every
\* constituent of the composite region, so that compile(), which applies
\* addPopulation, addBounds, addCounts in this order, does not throw on them.
FullFeeds ==
  \A i \in 1..Len(ops) :
    CASE ops[i] = "addPopulation" ->
           \A k \in BoroughSet :
             \E j \in 1..Len(feeds[i]) : Fips(feeds[i][j]) = k
      [] ops[i] = "addBounds" ->
           \A k \in BoroughSet :
             \E j \in 1..Len(feeds[i].features) :
               feeds[i].features[j].properties.GEOID = k
      [] ops[i] = "addCounts" -> TRUE

\* C1: feeding a region key's population row, boundary feature and counts
\* row through the three passes in any order, from an empty table, ends
\* without error and leaves for every key the Entry that the order of
\* compile() leaves.
C1_AnyOrderSameEntry ==
  FullFeeds =>
    /\ err = "none"
    /\ Len(ops) = 3 =>
         LET fixed == compile(FeedOf("addPopulation"), FeedOf("addBounds"),
                              FeedOf("addCounts"))
         IN \A k \in DOMAIN fixed.data :
              k \in DOMAIN data /\ data[k] = fixed.data[k]

\* The sum of the constituents' f, from the first to the i-th.
RECURSIVE SumOfBoroughs(_, _)
SumOfBoroughs(f(_), i) ==
  IF i = 0 THEN Zero ELSE Add(SumOfBoroughs(f, i - 1), f(BOROUGHS[i]))

\* C3: after ingestion the composite region's population is the sum of its
\* constituents' populations and its area the sum of their areas, with
\* nothing else added.
C3_CompositeSums ==
  Ingested =>
    LET Population(k) == ToNumber(data[k].population)
        Area(k) == data[k].area
    IN /\ data[nyc].population = SumOfBoroughs(Population, NBoroughs)
       /\ data[nyc].area = SumOfBoroughs(Area, NBoroughs)

\* The constituents' bounds lists, one after the other, first to i-th.
RECURSIVE ConcatOfBoroughs(_)
ConcatOfBoroughs(i) ==
  IF i = 0 THEN <<>>
  ELSE ConcatOfBoroughs(i - 1) \o data[BOROUGHS[i]].bounds

\* C4: after addBounds the composite region's bounds is exactly the
\* concatenation of its constituents' bounds lists in the order of BOROUGHS,
\* each list in its own order.
C4_CompositeBoundsConcat ==
  Returned("addBounds") => data[nyc].bounds = ConcatOfBoroughs(NBoroughs)

\* Two constituents with one and two polygons went into the composite.
C4_Witness ==
  /\ Returned("addBounds")
  /\ Len(data[BOROUGHS[1]].bounds) = 1
  /\ Len(data[BOROUGHS[2]].bounds) = 2
  /\ Len(data[nyc].bounds) = 3

HasDate(counts, date) == \E i \in 1..Len(counts) : counts[i].date = date

\* The field f of counts at date, 0 when counts has no such date.
CountAt(counts, date, f(_)) ==
  IF HasDate(counts, date) THEN f(Get(counts, date)) ELSE Zero

Cases(rec) == rec.cases
Deaths(rec) == rec.deaths

\* C5 as stated: after ingestion, for every date in the counts of at least
\* one constituent, the composite's cases and deaths at that date are the
\* sums of the constituents' (a constituent without the date adding 0).
C5_CompositeCountsSummed ==
  Ingested =>
    \A date \in FeedDates :
      (\E k \in BoroughSet : HasDate(data[k].counts, date)) =>
        LET CasesOf(k) == CountAt(data[k].counts, date, Cases)
            DeathsOf(k) == CountAt(data[k].counts, date, Deaths)
        IN /\ HasDate(data[nyc].counts, date)
           /\ Get(data[nyc].counts, date).cases
                = SumOfBoroughs(CasesOf, NBoroughs)
           /\ Get(data[nyc].counts, date).deaths
                = SumOfBoroughs(DeathsOf, NBoroughs)

\* The rows of the feed reported for New York City on date.
NycRows(date) ==
  LET raw == FeedOf("addCounts")
  IN {i \in 1..Len(raw) :
        raw[i].county = "New York City" /\ raw[i].date = date}

Last(S) == CHOOSE i \in S : \A j \in S : j <= i

\* C5 as amended: after addCounts the composite's counts hold, for each
\* date, the cases and deaths of the last feed row reported for New York
\* City on that date, and no record for a date without such a row; the
\* constituents' counts are not summed into it.
C5_CompositeCountsFromFeed ==
  Returned("addCounts") =>
    \A date \in FeedDates :
      IF NycRows(date) = {}
      THEN nyc \in DOMAIN data => ~HasDate(data[nyc].counts, date)
      ELSE LET row == FeedOf("addCounts")[Last(NycRows(date))]
           IN /\ nyc \in DOMAIN data
              /\ HasDate(data[nyc].counts, date)
              /\ Get(data[nyc].counts, date).cases = ToNumber(row.cases)
              /\ Get(data[nyc].counts, date).deaths = ToNumber(row.deaths)

\* A constituent and the composite both have a record on a date, and the
\* composite's cases are those of its own row, not the constituent's.
C5_Witness ==
  /\ Ingested
  /\ \E date \in FeedDates, k \in BoroughSet :
       /\ HasDate(data[k].counts, date)
       /\ HasDate(data[nyc].counts, date)
       /\ Get(data[k].counts, date).cases = Int2Num(2)
       /\ Get(data[nyc].counts, date).cases = Zero

----------------------------------------------------------------------------
(* The evaluator on the entries of a compiled table *)

\* The county whose entry is evaluated, and the feeds that vary its fields.
EvalKey == BOROUGHS[NBoroughs]

EvalPopulationFeeds ==
  {[i \in 1..NBoroughs |-> PopRow(BOROUGHS[i], p)] : p \in {0, 20}}
EvalBoundsFeeds ==
  {[features |-> <<>>]} \cup
  {[features |->
      [i \in 1..NBoroughs |-> Feature(BOROUGHS[i], a, PolygonOf(BOROUGHS[i]))]]
     : a \in {0, 2}}
EvalCountsFeeds ==
  SeqsUpTo({CountRow(EvalKey, date, pair) :
              date \in FeedDates, pair \in CountPairs}, MaxRows)

\* The values the application's pickers offer for the U.S. table.
AppNumerators ==
  {"cases (U.S.)", "daily new cases (U.S.)", "deaths (U.S.)",
   "daily new deaths (U.S.)"}
AppDenominators ==
  {"total", "per case", "per 1000 population", "per sq. mi."}
AppModes == {"on", "differenced between", "averaged"}

\* The denominators a formula is evaluated with: the pickers' and the ones
\* evaluateBasic recognizes.
EvalDenominators == AppDenominators \cup Denominators
AppDates == {DateOf(day) : day \in Days}

\* Values of an earlier version of the pickers, which the evaluator does not
\* recognize.
LegacyNumerators == {"new cases"}
LegacyModes == {"avg."}

EvalNumerators == AppNumerators \cup LegacyNumerators

\* The formulas evaluated: the pickers' values, and each legacy value in an
\* otherwise recognized formula.
Udfs ==
  [numerator : AppNumerators, denominator : EvalDenominators, mode : AppModes,
   refDate : AppDates, date : AppDates]
  \cup [numerator : LegacyNumerators, denominator : {"total"}, mode : AppModes,
        refDate : AppDates, date : AppDates]
  \cup [numerator : {"cases (U.S.)"}, denominator : {"total"},
        mode : LegacyModes, refDate : AppDates, date : AppDates]

PassNames == <<"addPopulation", "addBounds", "addCounts">>

Compile ==
  /\ ops = <<>>
  /\ err = "none"
  /\ \E rawPopulation \in EvalPopulationFeeds, rawBounds \in EvalBoundsFeeds,
        rawCounts \in EvalCountsFeeds :
       LET r == compile(rawPopulation, rawBounds, rawCounts)
       IN /\ data' = r.data
          /\ err' = r.err
          /\ ops' = SubSeq(PassNames, 1, r.passes)
          /\ feeds' = SubSeq(<<rawPopulation, rawBounds, rawCounts>>, 1,
                             r.passes)
          /\ minDate' = IF r.passes = 3 THEN r.minDate ELSE minDate
          /\ maxDate' = IF r.passes = 3 THEN r.maxDate ELSE maxDate
  /\ UNCHANGED <<call, result, app>>

\* The evaluator leaves the table as it is, so a behaviour records one call:
\* every call the program can make on a table is the one call of some
\* behaviour.
EvaluateBasic ==
  /\ Ingested
  /\ call = NoCall
  /\ EvalKey \in DOMAIN data
  /\ \E numerator \in EvalNumerators, denominator \in EvalDenominators,
        date \in AppDates :
       /\ call' = [fn |-> "evaluateBasic", key |-> EvalKey,
                   numerator |-> numerator, denominator |-> denominator,
                   date |-> date,
                   after |-> BasicDates(data[EvalKey], numerator,
                                        DateObjects(date, date), "date")]
       /\ result' = evaluateBasic(data[EvalKey], numerator, denominator, date)
  /\ UNCHANGED <<data, minDate, maxDate, err, ops, feeds, app>>

Evaluate ==
  /\ Ingested
  /\ call = NoCall
  /\ EvalKey \in DOMAIN data
  /\ \E udf \in Udfs :
       /\ call' = [fn |-> "evaluate", key |-> EvalKey, udf |-> udf,
                   after |-> EvaluateDates(data[EvalKey], udf,
                                           DateObjects(udf.date, udf.refDate))]
       /\ result' = evaluate(data[EvalKey], udf)
  /\ UNCHANGED <<data, minDate, maxDate, err, ops, feeds, app>>

ComputePolygons ==
  /\ Ingested
  /\ call = NoCall
  /\ \E udf \in Udfs :
       \E r \in {computePolygons(data, udf)} :
          /\ call' = [fn |-> "computePolygons", udf |-> udf,
                      after |-> r.objects]
          /\ result' = [t |-> r.t, v |-> r.v]
  /\ UNCHANGED <<data, minDate, maxDate, err, ops, feeds, app>>

NextEval == Compile \/ EvaluateBasic \/ Evaluate \/ ComputePolygons

SpecEval == Init /\ [][NextEval]_vars

----------------------------------------------------------------------------
(* A session: compile(), then further merge passes on the compiled table *)

\* A session applies at most MaxMerges passes, the three of compile() included.
MaxMerges == 5

\* A line of us-counties.csv cut after its fourth column: parseCsv gives the
\* row no cases and no deaths.
TruncatedRow(fips, date) ==
  [date |-> date, county |-> CountyName(fips), state |-> "New York",
   fips |-> fips]

\* The feeds of a further pass: those of compile() for population and
\* boundaries; for the counts, the feeds of at most one row and a feed with a
\* truncated line between two whole ones.
SessionCountsFeeds ==
  SeqsUpTo({CountRow(EvalKey, date, pair) :
              date \in FeedDates, pair \in CountPairs}, 1)
  \cup {<<CountRow(EvalKey, IsoOf(FirstDay), <<2, 3>>),
          TruncatedRow(EvalKey, IsoOf(FirstDay + 1)),
          CountRow(EvalKey, IsoOf(FirstDay + 2), <<2, 3>>)>>}

\* compile() has returned and the session may apply one more pass.
MayMerge ==
  /\ Len(ops) >= Len(PassNames)
  /\ Len(ops) < MaxMerges
  /\ err = "none"
  /\ call = NoCall

MergePopulation ==
  /\ MayMerge
  /\ \E rawPopulation \in EvalPopulationFeeds :
       LET r == addPopulation(data, rawPopulation)
       IN /\ data' = r.data
          /\ err' = r.err
          /\ feeds' = Append(feeds, rawPopulation)
  /\ ops' = Append(ops, "addPopulation")
  /\ UNCHANGED <<minDate, maxDate, call, result, app>>

MergeBounds ==
  /\ MayMerge
  /\ \E rawBounds \in EvalBoundsFeeds :
       LET r == addBounds(data, rawBounds)
       IN /\ data' = r.data
          /\ err' = r.err
          /\ feeds' = Append(feeds, rawBounds)
  /\ ops' = Append(ops, "addBounds")
  /\ UNCHANGED <<minDate, maxDate, call, result, app>>

MergeCounts ==
  /\ MayMerge
  /\ \E rawCounts \in SessionCountsFeeds :
       LET r == addCounts(data, rawCounts)
       IN /\ data' = r.data
          /\ minDate' = r.minDate
          /\ maxDate' = r.maxDate
          /\ err' = r.err
          /\ feeds' = Append(feeds, rawCounts)
  /\ ops' = Append(ops, "addCounts")
  /\ UNCHANGED <<call, result, app>>

NextSession == Compile \/ MergePopulation \/ MergeBounds \/ MergeCounts

SpecSession == Init /\ [][NextSession]_vars

----------------------------------------------------------------------------
(* The table of Los Angeles: its four merge passes and a session on it *)

LosAngelesCounty == "Los Angeles County, California"
OrangeCounty == "Orange County, California"

\* row.name + ", Los Angeles County, California"
PlaceKey(name, region) == name \o ", " \o region

\* The loop of addPopulation over the rows: population and area are assigned
\* from the row, whatever the entry held.
RECURSIVE LAPopulationRows(_, _)
LAPopulationRows(d, rows) ==
  IF rows = <<>> THEN d
  ELSE LET row == Head(rows)
           name == PlaceKey(row.name, LosAngelesCounty)
           d1 == Ensure(d, name, row.name, LosAngelesCounty)
           d2 == [d1 EXCEPT ![name].population = row.population,
                            ![name].area = row.area_sqmi]
       IN LAPopulationRows(d2, Tail(rows))

\* The loop of addBounds over the features; the features carry no NAME, so a
\* new entry is named undefined.
RECURSIVE LABoundsFeatures(_, _)
LABoundsFeatures(d, features) ==
  IF features = <<>> THEN d
  ELSE LET feature == Head(features)
           name == PlaceKey(feature.properties.name, LosAngelesCounty)
           d1 == Ensure(d, name, Prop(feature.properties, "NAME"),
                        LosAngelesCounty)
           d2 == [d1 EXCEPT ![name].bounds = @ \o Pushed(feature.geometry)]
       IN LABoundsFeatures(d2, Tail(features))

\* A variant of OCFeatures that merges a feature into the entry its place
\* already has, as addBounds does.
RECURSIVE OCFeaturesMerged(_, _)
OCFeaturesMerged(d, features) ==
  IF features = <<>> THEN d
  ELSE LET feature == Head(features)
           name == PlaceKey(feature.properties.NAME10, OrangeCounty)
           d1 == Ensure(d, name, feature.properties.NAME10, OrangeCounty)
           d2 == [d1 EXCEPT
                    ![name].area = Add(@, SqMiles(feature.properties.ALAND10)),
                    ![name].population =
                      Add(@, ToNumber(feature.properties.SF1_G001_VD072)),
                    ![name].bounds = @ \o Pushed(feature.geometry)]
       IN OCFeaturesMerged(d2, Tail(features))

\* The loop of addOC over the features: a feature whose place is already in
\* the table is passed over.
RECURSIVE OCFeatures(_, _)
OCFeatures(d, features) ==
  IF features = <<>> THEN d
  ELSE LET feature == Head(features)
           name == PlaceKey(feature.properties.NAME10, OrangeCounty)
           d1 == Put(d, name, EpiViewEntry(feature.properties.NAME10,
                                           OrangeCounty))
           d2 == [d1 EXCEPT
                    ![name].area = Add(@, SqMiles(feature.properties.ALAND10)),
                    ![name].population =
                      Add(@, ToNumber(feature.properties.SF1_G001_VD072)),
                    ![name].bounds = @ \o Pushed(feature.geometry)]
       IN IF name \in DOMAIN d THEN OCFeatures(d, Tail(features))
          ELSE OCFeatures(d2, Tail(features))

\* A variant of AddCases that assigns the row's cases to the record.
AddCasesAssigned(counts, date, cases) ==
  LET old == IF \E i \in 1..Len(counts) : counts[i].date = date
             THEN Get(counts, date) ELSE [cases |-> Zero, deaths |-> Zero]
  IN SetCount(counts, date, [cases |-> cases, deaths |-> old.deaths])

\* counts[row.date].cases += +row.confirmed_cases, the record of a new date
\* starting at { cases: 0, deaths: 0 }.
AddCases(counts, date, cases) ==
  LET old == IF \E i \in 1..Len(counts) : counts[i].date = date
             THEN Get(counts, date) ELSE [cases |-> Zero, deaths |-> Zero]
  IN SetCount(counts, date,
              [cases |-> Add(old.cases, cases), deaths |-> old.deaths])

\* The loop of addCounts over the rows of Los Angeles and Orange counties.
RECURSIVE LACountsRows(_, _)
LACountsRows(acc, rows) ==
  IF rows = <<>> THEN acc
  ELSE LET row == Head(rows)
           region == row.county \o " County, California"
           name == PlaceKey(row.place, region)
           d1 == Ensure(acc.data, name, row.place, region)
           d2 == [d1 EXCEPT ![name].counts =
                    AddCases(@, row.date,
                             ToNumber(Prop(row, "confirmed_cases")))]
           min == IF acc.minDate = EmptyStr \/ StrLess(row.date, acc.minDate)
                  THEN row.date ELSE acc.minDate
           max == IF acc.maxDate = EmptyStr \/ StrLess(acc.maxDate, row.date)
                  THEN row.date ELSE acc.maxDate
       IN IF row.county # "Los Angeles" /\ row.county # "Orange"
          THEN LACountsRows(acc, Tail(rows))
          ELSE LACountsRows([data |-> d2, minDate |-> min, maxDate |-> max],
                            Tail(rows))

LAaddCounts(d, rawCounts) ==
  LET acc == LACountsRows([data |-> d, minDate |-> EmptyStr,
                           maxDate |-> EmptyStr], rawCounts)
  IN [data |-> acc.data, minDate |-> parseDate(acc.minDate),
      maxDate |-> parseDate(acc.maxDate)]

\* compile(): addPopulation, addBounds, addOC and addCounts on a new table.
LAcompile(rawPopulation, rawBounds, rawOC, rawCounts) ==
  LAaddCounts(
    OCFeatures(
      LABoundsFeatures(LAPopulationRows(<<>>, rawPopulation),
                       rawBounds.features),
      rawOC.features),
    rawCounts)

\* The feeds: one neighborhood of Los Angeles, one place of Orange County and
\* one place of another county.
Neighborhood == "Acton"
OCPlace == "Brea"

\* la-county-population.json: the population and the area are numbers.
LAPopulationFeeds ==
  {<<[name |-> Neighborhood, population |-> Int2Num(p),
      area_sqmi |-> Int2Num(a)]>> : p \in {0, 20}, a \in {0, 3}}
LABoundsFeeds ==
  {[features |-> <<>>],
   [features |-> <<[properties |-> [name |-> Neighborhood],
                    geometry |-> PolygonOf(1)]>>]}
OCFeeds ==
  {[features |-> <<>>],
   [features |-> <<[properties |-> [NAME10 |-> OCPlace, ALAND10 |-> 2,
                                    SF1_G001_VD072 |-> Str(30)],
                    geometry |-> MultiPolygonOf(2)]>>],
   [features |-> <<[properties |-> [NAME10 |-> OCPlace, ALAND10 |-> 2,
                                    SF1_G001_VD072 |-> Str(30)],
                    geometry |-> MultiPolygonOf(2)],
                   [properties |-> [NAME10 |-> OCPlace, ALAND10 |-> 4,
                                    SF1_G001_VD072 |-> Str(10)],
                    geometry |-> PolygonOf(1)]>>]}
PlaceRow(place, county, date, cases) ==
  [date |-> date, county |-> county, place |-> place,
   confirmed_cases |-> Str(cases)]
LACountsFeeds ==
  SeqsUpTo({PlaceRow(pc[1], pc[2], date, cases) :
              pc \in {<<Neighborhood, "Los Angeles">>, <<OCPlace, "Orange">>,
                      <<"Arvin", "Kern">>},
              date \in FeedDates, cases \in {0, 2}}, 1)
  \cup {<<PlaceRow(Neighborhood, "Los Angeles", IsoOf(FirstDay), 2),
          PlaceRow(Neighborhood, "Los Angeles", IsoOf(FirstDay), 2)>>}

LAPassNames == <<"addPopulation", "addBounds", "addOC", "addCounts">>

LACompile ==
  /\ ops = <<>>
  /\ \E rawPopulation \in LAPopulationFeeds, rawBounds \in LABoundsFeeds,
        rawOC \in OCFeeds, rawCounts \in LACountsFeeds :
       LET r == LAcompile(rawPopulation, rawBounds, rawOC, rawCounts)
       IN /\ data' = r.data
          /\ minDate' = r.minDate
          /\ maxDate' = r.maxDate
          /\ feeds' = <<rawPopulation, rawBounds, rawOC, rawCounts>>
  /\ ops' = LAPassNames
  /\ UNCHANGED <<err, call, result, app>>

\* compile() has returned and the session may apply one more pass.
LAMayMerge == Len(ops) >= Len(LAPassNames) /\ Len(ops) < MaxMerges

LAMergePopulation ==
  /\ LAMayMerge
  /\ \E rawPopulation \in LAPopulationFeeds :
       /\ data' = LAPopulationRows(data, rawPopulation)
       /\ feeds' = Append(feeds, rawPopulation)
  /\ ops' = Append(ops, "addPopulation")
  /\ UNCHANGED <<minDate, maxDate, err, call, result, app>>

LAMergeBounds ==
  /\ LAMayMerge
  /\ \E rawBounds \in LABoundsFeeds :
       /\ data' = LABoundsFeatures(data, rawBounds.features)
       /\ feeds' = Append(feeds, rawBounds)
  /\ ops' = Append(ops, "addBounds")
  /\ UNCHANGED <<minDate, maxDate, err, call, result, app>>

LAMergeOC ==
  /\ LAMayMerge
  /\ \E rawOC \in OCFeeds :
       /\ data' = OCFeatures(data, rawOC.features)
       /\ feeds' = Append(feeds, rawOC)
  /\ ops' = Append(ops, "addOC")
  /\ UNCHANGED <<minDate, maxDate, err, call, result, app>>

LAMergeCounts ==
  /\ LAMayMerge
  /\ \E rawCounts \in LACountsFeeds :
       LET r == LAaddCounts(data, rawCounts)
       IN /\ data' = r.data
          /\ minDate' = r.minDate
          /\ maxDate' = r.maxDate
          /\ feeds' = Append(feeds, rawCounts)
  /\ ops' = Append(ops, "addCounts")
  /\ UNCHANGED <<err, call, result, app>>

NextLA ==
  LACompile \/ LAMergePopulation \/ LAMergeBounds \/ LAMergeOC
    \/ LAMergeCounts

SpecLA == Init /\ [][NextLA]_vars

----------------------------------------------------------------------------
(* The App: componentDidMount, the recompute timer and the pickers *)

\* A session of the App handles at most MaxEvents events of the user.
MaxEvents == 3

\* The assets bundled with the App, and the bodies a fetch of a case-count
\* feed may be answered with: no row, one day, two days.
BundledPopulation == [i \in 1..NBoroughs |-> PopRow(BOROUGHS[i], 20)]
BundledBounds ==
  [features |->
     [i \in 1..NBoroughs |-> Feature(BOROUGHS[i], 2, PolygonOf(BOROUGHS[i]))]]
BundledLAPopulation ==
  <<[name |-> Neighborhood, population |-> Int2Num(20),
     area_sqmi |-> Int2Num(3)]>>
BundledLABounds ==
  [features |-> <<[properties |-> [name |-> Neighborhood],
                   geometry |-> PolygonOf(1)]>>]
BundledOC ==
  [features |-> <<[properties |-> [NAME10 |-> OCPlace, ALAND10 |-> 2,
                                   SF1_G001_VD072 |-> Str(30)],
                   geometry |-> MultiPolygonOf(2)]>>]
Responses ==
  [us |-> {<<>>,
           <<CountRow(EvalKey, IsoOf(FirstDay), <<2, 3>>)>>,
           <<CountRow(EvalKey, IsoOf(FirstDay), <<0, 1>>),
             CountRow(EvalKey, IsoOf(FirstDay + 2), <<2, 3>>)>>},
   la |-> {<<>>,
           <<PlaceRow(Neighborhood, "Los Angeles", IsoOf(FirstDay), 2)>>,
           <<PlaceRow(Neighborhood, "Los Angeles", IsoOf(FirstDay), 0),
             PlaceRow(Neighborhood, "Los Angeles", IsoOf(FirstDay + 2), 2)>>}]

Tables == {"us", "la"}

\* A variant of TableOf in which the tables the constructor made are the
\* ones componentDidMount compiles.
TableOfCompiling(a, ref) ==
  CASE ref \in {"us", "new us"} -> a.compiled.us
    [] ref \in {"la", "new la"} -> a.compiled.la

\* The table object a field of the App refers to: one of the two the
\* constructor made, or one of the two componentDidMount compiles.
TableOf(a, ref) ==
  CASE ref = "us" -> a.compiled.us
    [] ref = "la" -> a.compiled.la
    [] OTHER -> NewTable

\* Object.keys of the Los Angeles table, in insertion order: with the bundled
\* assets the neighborhood is inserted before the place of Orange County.
PlaceKeys(keys) ==
  LET ordered == <<PlaceKey(Neighborhood, LosAngelesCounty),
                   PlaceKey(OCPlace, OrangeCounty)>>
      present == {i \in DOMAIN ordered : ordered[i] \in keys}
  IN IF present = {1, 2} THEN ordered
     ELSE [i \in 1..Cardinality(present) |-> ordered[CHOOSE j \in present : TRUE]]

\* this.table.computePolygons(this.state)
TablePolygons(a) ==
  LET t == TableOf(a, a.table)
      udf == [numerator |-> a.state.numerator,
              denominator |-> a.state.denominator, mode |-> a.state.mode,
              refDate |-> a.state.refDate, date |-> a.state.date]
  IN IF a.table = "la" THEN Polygons(t.data, PlaceKeys(DOMAIN t.data), udf)
     ELSE computePolygons(t.data, udf)

\* setState(state) and the render that follows it: render queues a recompute
\* timer whenever state.recompute is set.
SetState(a, state) ==
  [a EXCEPT !.state = state,
            !.timers = IF state.recompute THEN @ + 1 ELSE @]

\* Object.keys(this.table.data).length == 0: render shows "Downloading
\* data..." and no picker.
Downloading(a) == DOMAIN TableOf(a, a.table).data = {}

\* A variant of ToolbarShown that shows the pickers during a recompute.
ToolbarShownComputing(a) == ~Downloading(a)

\* render shows the toolbar with the pickers.
ToolbarShown(a) == ~Downloading(a) /\ ~a.state.recompute

\* A variant of Resumes that goes on after a rejected promise too.
ResumesAnyway(promise) == promise \in {"fulfilled", "rejected"}

\* await promise: the function goes on when the promise is fulfilled; a
\* rejected one is thrown from the await and ends it.
Resumes(promise) == promise = "fulfilled"

\* n days before a date: setDate(getDate() - n).
DaysEarlier(date, n) == IF date.valid THEN DateOf(date.day - n) ELSE date

\* The synchronous part of the two compile() calls: the passes over the
\* bundled assets, up to the fetch of addCounts.
CompiledUS ==
  Only({b : b \in {addBounds(p.data, BundledBounds) :
                     p \in {addPopulation(<<>>, BundledPopulation)}}})
CompiledLA ==
  OCFeatures(LABoundsFeatures(LAPopulationRows(<<>>, BundledLAPopulation),
                              BundledLABounds.features),
             BundledOC.features)

\* componentDidMount up to its first await: both compilations are started,
\* each runs up to its fetch.
Mount ==
  /\ app.pc = "constructed"
  /\ app' = [app EXCEPT
       !.pc = "await promise_us",
       !.compiled = [us |-> [NewTable EXCEPT !.data = CompiledUS.data],
                     la |-> [NewTable EXCEPT !.data = CompiledLA]],
       !.promise = [us |-> IF CompiledUS.err = "none" THEN "pending"
                           ELSE "rejected",
                    la |-> "pending"],
       !.issued = [us |-> IF CompiledUS.err = "none" THEN 1 ELSE 0,
                   la |-> 1]]
  /\ UNCHANGED <<data, minDate, maxDate, err, ops, feeds, call, result>>

\* The fetch of the U.S. feed is answered: the rest of addCounts runs and
\* compile() returns the table.
FetchedUS ==
  /\ app.promise.us = "pending"
  /\ \E rawCounts \in Responses.us :
       LET r == addCounts(app.compiled.us.data, rawCounts)
       IN app' = [app EXCEPT
            !.compiled.us = [data |-> r.data, minDate |-> r.minDate,
                             maxDate |-> r.maxDate],
            !.promise.us = "fulfilled"]
  /\ UNCHANGED <<data, minDate, maxDate, err, ops, feeds, call, result>>

FetchedLA ==
  /\ app.promise.la = "pending"
  /\ \E rawCounts \in Responses.la :
       LET r == LAaddCounts(app.compiled.la.data, rawCounts)
       IN app' = [app EXCEPT
            !.compiled.la = [data |-> r.data, minDate |-> r.minDate,
                             maxDate |-> r.maxDate],
            !.promise.la = "fulfilled"]
  /\ UNCHANGED <<data, minDate, maxDate, err, ops, feeds, call, result>>

\* A fetch fails: the promise of fetch is rejected, and with it the promise
\* of addCounts and of compile().
FetchFails ==
  /\ \E t \in Tables :
       /\ app.promise[t] = "pending"
       /\ app' = [app EXCEPT !.promise[t] = "rejected"]
  /\ UNCHANGED <<data, minDate, maxDate, err, ops, feeds, call, result>>

\* this.table_us = await promise_us
AwaitUS ==
  /\ app.pc = "await promise_us"
  /\ app.promise.us \in {"fulfilled", "rejected"}
  /\ app' = IF Resumes(app.promise.us)
            THEN [app EXCEPT !.table_us = "us", !.pc = "await promise_la"]
            ELSE [app EXCEPT !.pc = "rejected"]
  /\ UNCHANGED <<data, minDate, maxDate, err, ops, feeds, call, result>>

\* this.table_la = await promise_la, and the rest of componentDidMount.
AwaitLA ==
  /\ app.pc = "await promise_la"
  /\ app.promise.la \in {"fulfilled", "rejected"}
  /\ app' =
       IF Resumes(app.promise.la)
       THEN LET a == [app EXCEPT !.table_la = "la", !.table = app.table_us,
                                 !.pc = "mounted"]
                max == TableOf(a, a.table).maxDate
            IN SetState(a, [a.state EXCEPT !.recompute = TRUE,
                                           !.refDate = DaysEarlier(max, 7),
                                           !.date = max])
       ELSE [app EXCEPT !.pc = "rejected"]
  /\ UNCHANGED <<data, minDate, maxDate, err, ops, feeds, call, result>>

\* A recompute timer fires: when computePolygons throws, setState is not
\* reached.
TimerFires ==
  /\ app.timers > 0
  /\ \E r \in {TablePolygons(app)} :
       LET a == [app EXCEPT !.timers = @ - 1]
       IN app' = IF r.t = "throw" THEN a
                 ELSE SetState(a, [a.state EXCEPT !.polygons = r.v,
                                                  !.recompute = FALSE])
  /\ UNCHANGED <<data, minDate, maxDate, err, ops, feeds, call, result>>

\* The items of the numerator picker, in order.
NumeratorItems ==
  <<"cases (U.S.)", "daily new cases (U.S.)", "deaths (U.S.)",
    "daily new deaths (U.S.)", "cases (L.A.)", "daily new cases (L.A.)">>

\* The user may act on the toolbar.
MayPick == ToolbarShown(app) /\ app.events < MaxEvents

\* numPicker.onValueChange(value, index), index counting from 0.
PickNumerator ==
  /\ MayPick
  /\ \E i \in DOMAIN NumeratorItems :
       LET a == [app EXCEPT !.events = @ + 1,
                            !.table = IF i - 1 < 4 THEN app.table_us
                                      ELSE app.table_la]
       IN app' = SetState(a, [a.state EXCEPT !.numerator = NumeratorItems[i],
                                             !.recompute = TRUE])
  /\ UNCHANGED <<data, minDate, maxDate, err, ops, feeds, call, result>>

PickDenominator ==
  /\ MayPick
  /\ \E value \in AppDenominators :
       app' = SetState([app EXCEPT !.events = @ + 1],
                       [app.state EXCEPT !.denominator = value,
                                         !.recompute = TRUE])
  /\ UNCHANGED <<data, minDate, maxDate, err, ops, feeds, call, result>>

PickMode ==
  /\ MayPick
  /\ \E value \in AppModes :
       app' = SetState([app EXCEPT !.events = @ + 1],
                       [app.state EXCEPT !.mode = value, !.recompute = TRUE])
  /\ UNCHANGED <<data, minDate, maxDate, err, ops, feeds, call, result>>

\* The button of the reference date, shown unless the mode is "on", and the
\* button of the date.
PressRefDate ==
  /\ MayPick
  /\ app.state.mode # "on"
  /\ app' = SetState([app EXCEPT !.events = @ + 1],
                     [app.state EXCEPT !.pickingRefDate = TRUE])
  /\ UNCHANGED <<data, minDate, maxDate, err, ops, feeds, call, result>>

PressDate ==
  /\ MayPick
  /\ app' = SetState([app EXCEPT !.events = @ + 1],
                     [app.state EXCEPT !.pickingDate = TRUE])
  /\ UNCHANGED <<data, minDate, maxDate, err, ops, feeds, call, result>>

\* What a date picker can hand to onChange: a day between minimumDate and
\* maximumDate (an Invalid Date sets no limit), or nothing when the user
\* dismisses it.
NoValue == [valid |-> FALSE, day |-> -1]
PickerValues(a) ==
  LET t == TableOf(a, a.table)
  IN {NoValue} \cup
     {date \in AppDates :
        /\ t.minDate.valid => DateLE(t.minDate, date)
        /\ t.maxDate.valid => DateLE(date, t.maxDate)}

\* refDatePicker.onChange(e, value)
ChangeRefDate ==
  /\ MayPick
  /\ app.state.pickingRefDate
  /\ \E value \in PickerValues(app) :
       app' = SetState([app EXCEPT !.events = @ + 1],
                       IF value # NoValue
                       THEN [app.state EXCEPT !.refDate = value,
                                              !.pickingRefDate = FALSE,
                                              !.recompute = TRUE]
                       ELSE [app.state EXCEPT !.pickingRefDate = FALSE])
  /\ UNCHANGED <<data, minDate, maxDate, err, ops, feeds, call, result>>

\* datePicker.onChange(e, value)
ChangeDate ==
  /\ MayPick
  /\ app.state.pickingDate
  /\ \E value \in PickerValues(app) :
       app' = SetState([app EXCEPT !.events = @ + 1],
                       IF value # NoValue
                       THEN [app.state EXCEPT !.date = value,
                                              !.pickingDate = FALSE,
                                              !.recompute = TRUE]
                       ELSE [app.state EXCEPT !.pickingDate = FALSE])
  /\ UNCHANGED <<data, minDate, maxDate, err, ops, feeds, call, result>>

NextApp ==
  \/ Mount \/ FetchedUS \/ FetchedLA \/ FetchFails \/ AwaitUS \/ AwaitLA
  \/ TimerFires
  \/ PickNumerator \/ PickDenominator \/ PickMode
  \/ PressRefDate \/ PressDate \/ ChangeRefDate \/ ChangeDate

SpecApp == Init /\ [][NextApp]_vars

\* setTimeout runs its callback: a queued recompute timer fires in the end.
SpecAppFair == SpecApp /\ WF_vars(TimerFires)

\* The features of a feed that carry a key, in feed order.
FeaturesOf(features, key) ==
  LET Carries(feature) == feature.properties.GEOID = key
  IN SelectSeq(features, Carries)

\* The sum of the converted land areas of a sequence of features.
RECURSIVE LandArea(_)
LandArea(features) ==
  IF features = <<>> THEN Zero
  ELSE Add(JSNumber(Head(features).properties.ALAND, AreaGrain),
           LandArea(Tail(features)))

\* A linear ring as a polygon of the map.
AsLatLngs(ring) ==
  [i \in DOMAIN ring |-> [latitude |-> ring[i][2], longitude |-> ring[i][1]]]

\* The outer rings of a sequence of features: the first ring of a Polygon,
\* the first ring of each sub-polygon of a MultiPolygon.
RECURSIVE OuterRings(_)
OuterRings(features) ==
  IF features = <<>> THEN <<>>
  ELSE LET geometry == Head(features).geometry
           rings ==
             IF geometry.type = "Polygon"
             THEN <<AsLatLngs(geometry.coordinates[1])>>
             ELSE [i \in DOMAIN geometry.coordinates |->
                     AsLatLngs(geometry.coordinates[i][1])]
       IN rings \o OuterRings(Tail(features))

\* C22: addBounds on an empty table returns, and after it each entry other
\* than the composite has as area the sum of the converted land areas of the
\* features carrying its key, and as bounds the outer rings of those
\* features, one per Polygon and one per sub-polygon of a MultiPolygon, in
\* feed order, and no interior ring.
C22_BoundsOfFeatures ==
  (ops # <<>> /\ ops[1] = "addBounds") =>
    /\ err = "none"
    /\ \A i \in DOMAIN feeds[1].features :
         LET key == feeds[1].features[i].properties.GEOID
             carrying == FeaturesOf(feeds[1].features, key)
         IN /\ key \in DOMAIN data
            /\ data[key].area = LandArea(carrying)
            /\ data[key].bounds = OuterRings(carrying)

\* The part of C22 about the values alone: whatever the pass ended with.
BoundsValuesOfFeatures ==
  (ops # <<>> /\ ops[1] = "addBounds") =>
    \A i \in DOMAIN feeds[1].features :
      LET key == feeds[1].features[i].properties.GEOID
          carrying == FeaturesOf(feeds[1].features, key)
      IN /\ key \in DOMAIN data
         /\ data[key].area = LandArea(carrying)
         /\ data[key].bounds = OuterRings(carrying)

----------------------------------------------------------------------------
(* Properties of the evaluator *)

\* The entry the recorded call was made on.
CalledEntry == data[call.key]

\* x > 0
Positive(x) == ToNumber(x).n > 0

\* Completeness as the data model states it.
UsableEntry(entry) ==
  /\ Positive(entry.population)
  /\ Positive(entry.area)
  /\ Len(entry.bounds) > 0
  /\ Len(entry.counts) > 0

\* The date keys of counts on or before a date.
KeysOnOrBefore(counts, date) ==
  {counts[i].date : i \in {j \in 1..Len(counts) :
                             DateLE(parseDate(counts[j].date), date)}}

\* The latest date key on or before a date, undefined if there is none.
EffectiveDate(counts, date) ==
  LET keys == KeysOnOrBefore(counts, date)
  IN IF keys = {} THEN Undefined
     ELSE CHOOSE k \in keys :
            \A other \in keys : DateLE(parseDate(other), parseDate(k))

\* C2: evaluateBasic reads its values at the effective date, the latest date
\* key of counts on or before the requested date (and, for a daily numerator,
\* subtracts the value at the latest key on or before the previous day),
\* whatever the order in which the keys were inserted.
C2_ReadsLatestKey ==
  call.fn = "evaluateBasic" =>
    result = BasicFrom(CalledEntry, call.numerator, call.denominator,
                       EffectiveDate(CalledEntry.counts, call.date),
                       EffectiveDate(CalledEntry.counts, PrevDay(call.date)))

\* C6: evaluate returns 0 whenever the entry is not complete, complete
\* meaning population > 0, area > 0, bounds non-empty and counts non-empty.
C6_ZeroWhenIncomplete ==
  (call.fn = "evaluate" /\ ~UsableEntry(CalledEntry)) => result = Zero

\* C7: when no date key of counts is on or before the requested date,
\* evaluateBasic returns 0 for every recognized numerator and denominator.
C7_ZeroWhenNoKey ==
  (/\ call.fn = "evaluateBasic"
   /\ KeysOnOrBefore(CalledEntry.counts, call.date) = {})
  => result = Zero

\* evaluateBasic was asked for a day before the only record, which has cases.
C7_Witness ==
  /\ call.fn = "evaluateBasic"
  /\ call.numerator = "cases (U.S.)"
  /\ call.denominator = "total"
  /\ Len(CalledEntry.counts) = 1
  /\ CalledEntry.counts[1].cases # Zero
  /\ KeysOnOrBefore(CalledEntry.counts, call.date) = {}
  /\ result = Zero

\* The recorded call is evaluate in the given mode on a complete entry.
EvaluatedIn(mode) ==
  /\ call.fn = "evaluate"
  /\ call.udf.mode = mode
  /\ UsableEntry(CalledEntry)

\* The basic formula of the recorded evaluate call, at a date.
BasicAt(date) ==
  evaluateBasic(CalledEntry, call.udf.numerator, call.udf.denominator, date)

\* The recorded call is a self-difference: evaluate in mode "differenced
\* between" with date = refDate, on a complete entry, with a numerator and a
\* denominator evaluateBasic recognizes.
SelfDifference ==
  /\ EvaluatedIn("differenced between")
  /\ call.udf.date = call.udf.refDate
  /\ StripParen(call.udf.numerator) \in Numerators
  /\ call.udf.denominator \in Denominators

\* C8 as stated: on a complete entry, "differenced between" with
\* date = refDate returns 0, also when the denominator resolves to 0.
C8_SelfDifferenceZero == SelfDifference => result = Zero

\* The denominator of the recorded evaluate call resolves to 0 at the record
\* read for the date.
DenominatorIsZero(date) ==
  LET dateStr == LookupKey(CalledEntry.counts, date)
  IN /\ dateStr # Undefined
     /\ DenominatorValue(CalledEntry, call.udf.denominator, dateStr) = Zero

\* C8: on a complete entry, "differenced between" with date = refDate = d
\* returns 0 unless the denominator resolves to 0 at d, and NaN when it does.
C8_SelfDifferenceZeroOrNaN ==
  SelfDifference =>
    result = IF DenominatorIsZero(call.udf.date) THEN NaN ELSE Zero

\* A self-difference of a finite, non-zero basic value returned 0.
C8_Witness ==
  /\ SelfDifference
  /\ IsFinite(BasicAt(call.udf.date))
  /\ BasicAt(call.udf.date) # Zero
  /\ result = Zero

\* C9: on a complete entry, mode "on" returns evaluateBasic at the date.
C9_OnIsBasic ==
  EvaluatedIn("on") => result = BasicAt(call.udf.date)

\* Mode "on" was evaluated with a reference date at which the basic value
\* differs from the one at the date.
C9_Witness ==
  /\ EvaluatedIn("on")
  /\ BasicAt(call.udf.date) # BasicAt(call.udf.refDate)
  /\ BasicAt(call.udf.date) # Zero
  /\ result = BasicAt(call.udf.date)

\* C10: on a complete entry, mode "averaged" with date = refDate = d returns
\* evaluateBasic at d.
C10_SingleDayAverage ==
  (EvaluatedIn("averaged") /\ call.udf.date = call.udf.refDate)
  => result = BasicAt(call.udf.date)

\* A single-day average of a finite, non-zero basic value.
C10_Witness ==
  /\ EvaluatedIn("averaged")
  /\ call.udf.date = call.udf.refDate
  /\ IsFinite(BasicAt(call.udf.date))
  /\ BasicAt(call.udf.date) # Zero
  /\ result = BasicAt(call.udf.date)

\* The date keys of counts were inserted in date order.
Chronological(counts) ==
  \A i, j \in 1..Len(counts) :
    i < j => (/\ DateLE(parseDate(counts[i].date), parseDate(counts[j].date))
              /\ counts[i].date # counts[j].date)

\* The recorded call is evaluateBasic with a daily numerator and a recognized
\* denominator, on counts in date order with a record on or before the date.
DailyCall ==
  /\ call.fn = "evaluateBasic"
  /\ StripParen(call.numerator) \in {"daily new cases", "daily new deaths"}
  /\ call.denominator \in Denominators
  /\ Chronological(CalledEntry.counts)
  /\ EffectiveDate(CalledEntry.counts, call.date) # Undefined

\* The cumulative field a daily numerator differences.
DailyField(rec) ==
  IF StripParen(call.numerator) = "daily new cases" THEN rec.cases
  ELSE rec.deaths

Modes == {"on", "differenced between", "averaged"}

\* The formula has a numerator, denominator or mode that is not recognized.
Unrecognized(udf) ==
  \/ StripParen(udf.numerator) \notin Numerators
  \/ udf.denominator \notin Denominators
  \/ udf.mode \notin Modes

\* C12: evaluate rejects a formula with an unrecognized numerator,
\* denominator or mode with an error in every case, also on an incomplete
\* entry or without a record on or before the date; it never answers it with
\* a number.
C12_UnrecognizedRejected ==
  (call.fn = "evaluate" /\ Unrecognized(call.udf)) => result.t = "throw"

\* C13: in mode "averaged" with refDate later than date, evaluate raises an
\* invalid-argument fault; it returns neither a number nor NaN.
C13_EmptyAverageRejected ==
  (/\ EvaluatedIn("averaged")
   /\ ~Unrecognized(call.udf)
   /\ ~DateGE(call.udf.date, call.udf.refDate))
  => result.t = "throw"

----------------------------------------------------------------------------
(* Properties of a session *)

\* The step applies one further pass, the named one.
Merges(pass) ==
  /\ Len(ops') = Len(ops) + 1
  /\ ops'[Len(ops')] = pass

\* The feed the step's pass is given.
MergedFeed == feeds'[Len(feeds')]

\* The row of the counts feed has every field addCounts reads.
WholeRow(row) ==
  {"date", "county", "state", "fips", "cases", "deaths"} \subseteq DOMAIN row

\* C14: a row that lacks a required field is skipped: the pass does not
\* abort, the table gains nothing from that row, and the rows before and
\* after it are ingested; here for addCounts and a row without cases and
\* deaths.
C14_MalformedRowSkipped ==
  [][Merges("addCounts") =>
       /\ err' = "none"
       /\ data' = addCounts(data, SelectSeq(MergedFeed, WholeRow)).data]_vars

\* The step applies the pass the session applied last, with the same feed.
MergesAgain ==
  /\ Len(ops) >= 1
  /\ Merges(ops[Len(ops)])
  /\ MergedFeed = feeds[Len(feeds)]

\* C15: each merge pass is idempotent: applying it a second time with the
\* same input leaves every entry and minDate/maxDate as the first
\* application left them.
C15_PassIdempotent ==
  [][MergesAgain =>
       (data' = data /\ minDate' = minDate /\ maxDate' = maxDate)]_vars

\* The date keys present in the counts of any entry of the table.
StoredDateKeys ==
  UNION {{data[k].counts[i].date : i \in 1..Len(data[k].counts)} :
           k \in DOMAIN data}

\* C16: after addCounts, minDate is the smallest and maxDate the largest date
\* key in the counts of any entry: every stored key lies between them, both
\* are attained, and both are valid dates.
C16_MinMaxAreExtremes ==
  Returned("addCounts") =>
    /\ minDate.valid /\ maxDate.valid
    /\ \A k \in StoredDateKeys :
         DateLE(minDate, parseDate(k)) /\ DateLE(parseDate(k), maxDate)
    /\ \E k \in StoredDateKeys : parseDate(k) = minDate
    /\ \E k \in StoredDateKeys : parseDate(k) = maxDate

\* C17: completeness never regresses. Whatever pass a session applies, every
\* entry that was complete before the pass is in the table and complete
\* after it.
C17_CompleteStaysComplete ==
  [][\A k \in DOMAIN data :
       complete(data[k]) => k \in DOMAIN data' /\ complete(data'[k])]_vars

\* The date and the reference date a recorded call was given.
GivenDates ==
  IF call.fn = "evaluateBasic" THEN [date |-> call.date, refDate |-> call.date]
  ELSE [date |-> call.udf.date, refDate |-> call.udf.refDate]

\* C18: evaluate, evaluateBasic and computePolygons have no side effects. A
\* step that makes one of these calls leaves the entries of the table and its
\* minDate and maxDate as they were, and after the call the formula's date
\* and refDate are the dates the call was given.
C18_NoSideEffects ==
  [][call' # call =>
       /\ data' = data /\ minDate' = minDate /\ maxDate' = maxDate
       /\ call'.after.date = GivenDates'.date
       /\ call'.after.refDate = GivenDates'.refDate]_vars

\* computePolygons has drawn an entry under an averaged daily formula over
\* several days: the loop has moved its own d, the daily numerator its own
\* prevDate.
C18_Witness ==
  /\ call.fn = "computePolygons"
  /\ call.udf.mode = "averaged"
  /\ call.udf.numerator = "daily new cases (U.S.)"
  /\ result.t = "polygons" /\ result.v # <<>>
  /\ call.after.d.day < call.udf.refDate.day
  /\ call.after.prevDate.day < call.udf.date.day

\* The recorded call is evaluateBasic per case with a recognized numerator, on
\* counts in date order whose record at the effective date has 0 cases.
PerCaseOfNone ==
  /\ call.fn = "evaluateBasic"
  /\ call.denominator = "per case"
  /\ StripParen(call.numerator) \in Numerators
  /\ Chronological(CalledEntry.counts)
  /\ EffectiveDate(CalledEntry.counts, call.date) # Undefined
  /\ Get(CalledEntry.counts,
         EffectiveDate(CalledEntry.counts, call.date)).cases = Zero

AveragedCall ==
  /\ call.fn = "evaluate"
  /\ call.udf.mode = "averaged"
  /\ DateLE(call.udf.refDate, call.udf.date)
  /\ StripParen(call.udf.numerator) \in Numerators
  /\ call.udf.denominator \in Denominators
  /\ complete(CalledEntry)

\* The sum of evaluateBasic over the days first..last.
RECURSIVE BasicSum(_, _)
BasicSum(first, last) ==
  IF first > last THEN Zero
  ELSE Add(evaluateBasic(CalledEntry, call.udf.numerator,
                         call.udf.denominator, DateOf(first)),
           BasicSum(first + 1, last))

\* C23: in mode "averaged" with refDate <= date, evaluate returns the
\* arithmetic mean of evaluateBasic over every calendar day from refDate to
\* date, both included: (date - refDate in days) + 1 terms, a day without a
\* record of its own counting as much as one with.
C23_AverageOverEveryDay ==
  AveragedCall =>
    result = Div(BasicSum(call.udf.refDate.day, call.udf.date.day),
                 Int2Num(call.udf.date.day - call.udf.refDate.day + 1))

\* Total cases were averaged over three days of which the middle one has no
\* record, the first 0 cases and the last 2: the mean is 2/3, the middle
\* day counting with the 0 of the day before.
C23_Witness ==
  /\ AveragedCall
  /\ call.udf.numerator = "cases (U.S.)"
  /\ call.udf.denominator = "total"
  /\ call.udf.refDate = DateOf(FirstDay)
  /\ call.udf.date = DateOf(FirstDay + 2)
  /\ ~HasDate(CalledEntry.counts, IsoOf(FirstDay + 1))
  /\ result = JSNumber(2, 3)

\* The recorded call is computePolygons and it returned its array.
PolygonsReturned == call.fn = "computePolygons" /\ result.t = "polygons"

\* The places in the returned array of the Polygons made for a region key.
PolygonsFor(key) == {i \in 1..Len(result.v) : result.v[i].key[1] = key}

\* The returned array has one Polygon per element of the bounds of an entry,
\* its coordinates that element and its key the region key with the index
\* of the element, and no two Polygons have the same key.
OnePerBound(key) ==
  /\ Cardinality(PolygonsFor(key)) = Len(data[key].bounds)
  /\ \A b \in 1..Len(data[key].bounds) :
       \E i \in PolygonsFor(key) :
          /\ result.v[i].key = <<key, b - 1>>
          /\ result.v[i].coordinates = data[key].bounds[b]
  /\ \A i, j \in PolygonsFor(key) :
       result.v[i].key = result.v[j].key => i = j

\* C24: the array computePolygons returns holds exactly one Polygon per
\* element of bounds of each complete Entry, keyed by region key and index
\* with all keys distinct, and no Polygon of an Entry that is not complete
\* (population > 0, area > 0, bounds and counts not empty).
C24_PolygonsOfCompleteEntries ==
  PolygonsReturned =>
    \A key \in DOMAIN data :
       IF UsableEntry(data[key]) THEN OnePerBound(key)
       ELSE PolygonsFor(key) = {}

\* What computePolygons does: the same with the entries complete() accepts.
PolygonsOfAcceptedEntries ==
  PolygonsReturned =>
    \A key \in DOMAIN data :
       IF complete(data[key]) THEN OnePerBound(key)
       ELSE PolygonsFor(key) = {}

\* computePolygons returned the Polygons of an entry while it passed over an
\* entry that has bounds and is not complete.
PolygonsOfAcceptedReached ==
  /\ PolygonsReturned
  /\ result.v # <<>>
  /\ \E key \in DOMAIN data :
       ~complete(data[key]) /\ Len(data[key].bounds) > 0

\* The formula is one the App can hold: its fields are the initial ones of
\* the constructor or items of the pickers.
AppFormula(udf) ==
  /\ \E i \in DOMAIN NumeratorItems : udf.numerator = NumeratorItems[i]
  /\ udf.denominator \in AppDenominators
  /\ udf.mode \in AppModes

\* C27: every numerator, denominator and mode the App can hold is accepted
\* by evaluate: on a complete Entry with a record on or before the date no
\* such formula ends in the throw of an invalid numerator, denominator or
\* mode.
C27_AppFormulasAccepted ==
  ( /\ call.fn = "evaluate"
    /\ AppFormula(call.udf)
    /\ complete(CalledEntry)
    /\ KeysOnOrBefore(CalledEntry.counts, call.udf.date) # {} )
  => result.t # "throw"

\* What the evaluator does accept: the formulas of the App whose denominator
\* is not "per 1000 population".
OtherAppFormulasAccepted ==
  ( /\ call.fn = "evaluate"
    /\ AppFormula(call.udf)
    /\ call.udf.denominator # "per 1000 population" )
  => result.t # "throw"

----------------------------------------------------------------------------
(* Properties of the table of Los Angeles *)

\* The step runs addCounts of the Los Angeles table, in compile() or as a
\* further pass, and the feed it is given.
LACountsStep == ops' # ops /\ ops'[Len(ops')] = "addCounts"
LACountsFeed == feeds'[Len(feeds')]

\* addCounts reads the row: its county is Los Angeles or Orange.
Counted(row) == row.county \in {"Los Angeles", "Orange"}

\* The key a row of the feed is stored under.
RowKey(row) == PlaceKey(row.place, row.county \o " County, California")

\* The rows of a feed with the place, county and date of a row.
CellRows(feed, row) ==
  {i \in DOMAIN feed : /\ feed[i].place = row.place
                        /\ feed[i].county = row.county
                        /\ feed[i].date = row.date}

\* The sum of the confirmed cases of the rows i of a feed, in feed order.
RECURSIVE CasesOfRows(_, _)
CasesOfRows(feed, rows) ==
  IF rows = {} THEN Zero
  ELSE LET i == Last(rows)
       IN Add(CasesOfRows(feed, rows \ {i}),
              ToNumber(Prop(feed[i], "confirmed_cases")))

\* What the table held for the cell of a row before the step.
HeldBefore(row, f(_)) ==
  IF RowKey(row) \in DOMAIN data
  THEN CountAt(data[RowKey(row)].counts, row.date, f)
  ELSE Zero

OCStep == ops' # ops /\ ops'[Len(ops')] = "addOC"
OCFeed == feeds'[Len(feeds')].features

\* The key addOC gives the place of a feature.
OCKey(feature) == PlaceKey(feature.properties.NAME10, OrangeCounty)

\* The entry addOC makes of one feature alone.
OCEntry(feature) ==
  [EpiViewEntry(feature.properties.NAME10, OrangeCounty) EXCEPT
     !.population = ToNumber(feature.properties.SF1_G001_VD072),
     !.area = SqMiles(feature.properties.ALAND10),
     !.bounds = Pushed(feature.geometry)]

\* C30: addOC is first-wins per key: an Entry whose key was in the table
\* before addOC is left as it was, the features of that key being passed
\* over, and each Entry addOC creates has the population, area and bounds
\* of exactly the first feature of the feed with its name.
C30_FirstFeatureWins ==
  [][OCStep =>
       /\ \A key \in DOMAIN data : data'[key] = data[key]
       /\ DOMAIN data' =
            DOMAIN data \cup {OCKey(OCFeed[i]) : i \in 1..Len(OCFeed)}
       /\ \A key \in DOMAIN data' \ DOMAIN data :
            LET named == {i \in 1..Len(OCFeed) : OCKey(OCFeed[i]) = key}
                first == CHOOSE i \in named : \A j \in named : i <= j
            IN data'[key] = OCEntry(OCFeed[first])]_vars

\* addOC read two features of one place: the Entry of the place has the
\* population 30, the area and the two bounds of the first of them.
C30_Witness ==
  /\ ops # <<>> /\ ops[Len(ops)] = "addOC"
  /\ Len(feeds[Len(feeds)].features) = 2
  /\ PlaceKey(OCPlace, OrangeCounty) \in DOMAIN data
  /\ data[PlaceKey(OCPlace, OrangeCounty)] =
       OCEntry(feeds[Len(feeds)].features[1])
  /\ data[PlaceKey(OCPlace, OrangeCounty)] #
       OCEntry(feeds[Len(feeds)].features[2])

----------------------------------------------------------------------------
(* Properties of the App *)

\* The fetch of the case-count feed of a table has failed.
FetchFailed(t) == app.promise[t] = "rejected" /\ app.issued[t] > 0

\* One fetch was issued for the table, none of its entries has counts or is
\* complete, and the App shows "Downloading data...".
StaysUnloaded(t) ==
  /\ app.issued[t] = 1
  /\ \A k \in DOMAIN app.compiled[t].data :
       /\ app.compiled[t].data[k].counts = <<>>
       /\ ~complete(app.compiled[t].data[k])
  /\ Downloading(app)

\* C19: a failed fetch of a case-count feed is final. From the state where
\* the fetch of a table has failed, in every later state no second fetch has
\* been issued for it, no entry of the table has counts, every entry of the
\* table is incomplete, and the App is still in its data-loading state.
C19_FailedFetchIsFinal ==
  /\ [](FetchFailed("us") => [](StaysUnloaded("us")))
  /\ [](FetchFailed("la") => [](StaysUnloaded("la")))

\* The fetch of the U.S. feed has failed while the one of Los Angeles was
\* answered, and componentDidMount has ended at its first await.
C19_Witness ==
  /\ FetchFailed("us")
  /\ app.promise.la = "fulfilled"
  /\ app.pc = "rejected"
  /\ DOMAIN app.compiled.us.data # {}

\* The tables render, the pickers and the recompute timer can read: the ones
\* the fields table_us, table_la and table refer to.
VisibleTables ==
  {TableOf(app, ref) : ref \in {app.table_us, app.table_la, app.table}}

\* A table the App can read is an empty one of the constructor or one whose
\* compile() has returned.
VisibleIsCompiled ==
  \A t \in VisibleTables :
     \/ t = NewTable
     \/ \E x \in Tables : t = app.compiled[x] /\ app.promise[x] = "fulfilled"

\* A table is merged into only while its compile() is pending, and a table
\* whose compile() has returned is not merged into again.
MergesBeforeReturn ==
  \A x \in Tables :
     app'.compiled[x] # app.compiled[x] =>
       /\ app.promise[x] \in {"none", "pending"}
       /\ app'.promise[x] \in {"pending", "fulfilled", "rejected"}

\* C25: with the two compilations started together and their fetches
\* answered in either order, a table is read by the App only after every
\* merge pass of its compile() has finished, and no merge pass changes a
\* table the App can read.
C25_MergedBeforeVisible == [](VisibleIsCompiled) /\ [][MergesBeforeReturn]_vars

\* Both fetches were answered with rows; the App is mounted, reads the
\* compiled U.S. table and has a recompute queued.
C25_Witness ==
  /\ app.pc = "mounted"
  /\ app.table = "us" /\ app.table_la = "la"
  /\ app.compiled.us.data # CompiledUS.data
  /\ app.compiled.la.data # CompiledLA
  /\ app.timers > 0

\* The polygons in state are the ones computePolygons gives for the formula
\* in state, and no recompute is asked for.
Recomputed ==
  /\ ~app.state.recompute
  /\ \E r \in {TablePolygons(app)} :
       r.t = "polygons" /\ app.state.polygons = r.v

\* C26: every recompute request completes: once the tables are loaded and
\* recompute is true, the queued timer fires in the end, polygons is set to
\* computePolygons of the formula then in state and recompute becomes false.
C26_RecomputeCompletes ==
  (app.pc = "mounted" /\ app.state.recompute) ~> Recomputed

\* The fields of state that computePolygons reads.
FormulaOf(a) ==
  [numerator |-> a.state.numerator, denominator |-> a.state.denominator,
   mode |-> a.state.mode, refDate |-> a.state.refDate, date |-> a.state.date]

\* During a recompute the formula and the active table stay as they are.
FrozenWhileComputing ==
  app.state.recompute =>
    FormulaOf(app') = FormulaOf(app) /\ app'.table = app.table

\* At most one recompute timer is queued, and outside a recompute the
\* polygons in state are the ones of the formula and table in state.
OneTimerAndCurrentPolygons ==
  /\ app.timers <= 1
  /\ app.timers = 1 => app.state.recompute
  /\ ~app.state.recompute =>
       \E r \in {TablePolygons(app)} :
          r.t = "polygons" /\ app.state.polygons = r.v

\* C28: while recompute is true no field of the formula and no selection of
\* the active table changes, and at most one recompute timer is outstanding;
\* so the polygons a timer sets are the ones of the formula that asked for
\* them.
C28_NoChangeWhileComputing ==
  [](OneTimerAndCurrentPolygons) /\ [][FrozenWhileComputing]_vars

\* The user chose a denominator, then the table of Los Angeles, whose
\* polygons were computed, and then a mode: that third recompute is asked
\* for and its timer is queued.
C28_Witness ==
  /\ app.state.recompute
  /\ app.timers = 1
  /\ app.events = 3
  /\ app.table = "la"
  /\ app.state.polygons # <<>>

\* A date lies between the minDate and the maxDate of a table.
InRange(t, date) ==
  /\ t.minDate.valid /\ t.maxDate.valid /\ date.valid
  /\ DateLE(t.minDate, date)
  /\ DateLE(date, t.maxDate)

\* C29: once the tables are loaded, the date and the refDate in state lie
\* within [minDate, maxDate] of the active table, also after the numerator
\* picker has switched tables.
C29_DatesWithinActiveTable ==
  app.pc = "mounted" =>
    /\ InRange(TableOf(app, app.table), app.state.date)
    /\ InRange(TableOf(app, app.table), app.state.refDate)

====
